---- MODULE Spec2Model ----
(***************************************************************************)
(* Model of Data_Preprocessing/import_excels_to_db.py: the batch import of *)
(* four spreadsheets (summaries, consults, labs, nursing) into the store   *)
(* through one SQLAlchemy session (autocommit=False, autoflush=False), one *)
(* PatientCache and the commit helper maybe_commit.                        *)
(*                                                                         *)
(* The store is modelled in three layers:                                  *)
(*   durable  what has been committed,                                     *)
(*   db       what SQL issued inside the open transaction sees             *)
(*            (durable plus everything flushed),                           *)
(*   sess     what the session holds (db plus pending, unflushed objects   *)
(*            and unflushed attribute changes).                            *)
(* flush copies sess to db, commit copies sess to db and durable, rollback *)
(* copies durable to sess and db.                                          *)
(***************************************************************************)
EXTENDS Integers, Sequences, FiniteSets, TLC

----------------------------------------------------------------------------
(* Bounds of the model *)

\* rows read from the spreadsheets in one run (all four importers together)
MaxRows == 2
\* the key cells of the spreadsheets hold the numbers 1..MaxKey
MaxKey == 2

\* COMMIT_BATCH = int(os.getenv("COMMIT_BATCH", "2000")): the configured batch
COMMIT_BATCH == 2

\* IMPORT_USER_ID = int(os.getenv("IMPORT_USER_ID", "1"))
IMPORT_USER_ID == 1

\* Python's None among integers (ids and keys are positive)
None == -1

Keys == 1..MaxKey

----------------------------------------------------------------------------
(* Cells of a spreadsheet row, and text *)

\* A text is a sequence of tokens: single characters and the two tags.
NoneCell == [t |-> "none"]
NaNCell == [t |-> "nan"]
IntCell(n) == [t |-> "int", v |-> n]
StrCell(s) == [t |-> "str", s |-> s]
\* a cell pandas parses to the datetime v
TsCell(v) == [t |-> "ts", v |-> v]

Digits == <<"0", "1", "2", "3", "4", "5", "6", "7", "8", "9">>

IsDigit(c) == \E d \in 1..10 : Digits[d] = c

DigitVal(c) == (CHOOSE d \in 1..10 : Digits[d] = c) - 1

AllDigits(s) == \A j \in 1..Len(s) : IsDigit(s[j])

RECURSIVE DigitsToInt(_)
DigitsToInt(s) ==
    IF s = <<>> THEN 0
    ELSE 10 * DigitsToInt(SubSeq(s, 1, Len(s) - 1)) + DigitVal(s[Len(s)])

\* str(n) of a non-negative integer
RECURSIVE IntToStr(_)
IntToStr(n) ==
    IF n < 10 THEN <<Digits[n + 1]>>
    ELSE IntToStr(n \div 10) \o <<Digits[(n % 10) + 1]>>

\* str(x) of a cell value
PyStr(x) ==
    IF x.t = "str" THEN x.s
    ELSE IF x.t = "int" THEN IntToStr(x.v)
    ELSE IF x.t = "nan" THEN <<"n", "a", "n">>
    ELSE <<"N", "o", "n", "e">>

RECURSIVE LStrip(_)
LStrip(s) == IF s # <<>> /\ Head(s) = " " THEN LStrip(Tail(s)) ELSE s

RECURSIVE RStrip(_)
RStrip(s) ==
    IF s # <<>> /\ s[Len(s)] = " " THEN RStrip(SubSeq(s, 1, Len(s) - 1)) ELSE s

Strip(s) == RStrip(LStrip(s))

Remove(s, tok) == SelectSeq(s, LAMBDA c : c # tok)

clean_text(x) ==
    IF x.t = "none" THEN <<>>
    ELSE IF x.t = "nan" THEN <<>>
    ELSE Strip(Remove(Remove(PyStr(x), "</p>"), "<p>"))

\* position of the first "." of s, 0 when there is none
DotAt(s) ==
    IF \E j \in 1..Len(s) : s[j] = "."
    THEN CHOOSE j \in 1..Len(s) : s[j] = "." /\ \A h \in 1..(j - 1) : s[h] # "."
    ELSE 0

\* int(v): the integer, None when int() raises
PyInt(v) ==
    IF v.t = "int" THEN v.v
    ELSE IF v.t = "str" /\ Strip(v.s) # <<>> /\ AllDigits(Strip(v.s))
         THEN DigitsToInt(Strip(v.s))
    ELSE None

\* the second conversion left out: a cell int() rejects has no key
PyIntOfFloatNever(v) == None

\* int(float(v)): digits "." digits truncated, None when float() raises
PyIntOfFloat(v) ==
    IF v.t # "str" THEN None
    ELSE LET s == Strip(v.s)
             d == DotAt(s)
             ip == SubSeq(s, 1, d - 1)
             fp == SubSeq(s, d + 1, Len(s))
         IN IF d = 0 THEN None
            ELSE IF AllDigits(ip) /\ AllDigits(fp) /\ (ip \o fp) # <<>>
                 THEN DigitsToInt(ip)
            ELSE None

get_mrn_from_row(r) ==
    LET v == r.key
    IN IF v.t = "none" THEN None
       ELSE IF v.t = "nan" THEN None
       ELSE IF PyInt(v) # None THEN PyInt(v)
       ELSE PyIntOfFloat(v)

----------------------------------------------------------------------------
(* Rows of the four spreadsheets *)

X == StrCell(<<"<p>", "x", "</p>">>)
Y == StrCell(<<" ", "y">>)
Blank == StrCell(<<" ">>)

\* key cells: missing, an integer, a float-formatted string, no number
KeyCells ==
    {NaNCell, StrCell(<<"a">>), StrCell(IntToStr(MaxKey) \o <<".", "0">>)}
        \cup {IntCell(k) : k \in Keys}

DiagCols == <<"Primary", "Secondary", "Past", "Present">>

\* chief complaint, treatment course and the diagnosis columns that are filled
SummaryContents ==
    {<<NaNCell, Blank, {}>>, <<X, Y, {"Primary"}>>,
     <<X, Blank, {"Secondary", "Present"}>>, <<NaNCell, Y, {}>>}

SummaryRows ==
    {[kind |-> "summary", key |-> k, chief |-> c[1], treatment |-> c[2],
      diag |-> [j \in 1..4 |-> IF DiagCols[j] \in c[3] THEN X ELSE NaNCell]] :
        k \in KeyCells, c \in SummaryContents}

ConsultRows ==
    {[kind |-> "consult", key |-> k, reply_time |-> ts, reply_content |-> c] :
        k \in KeyCells, ts \in {NaNCell, TsCell(1)}, c \in {Blank, X}}

\* test date, test name and result
LabContents ==
    {<<NaNCell, X, Y>>, <<TsCell(1), NaNCell, Blank>>, <<TsCell(1), X, NaNCell>>,
     <<TsCell(1), NaNCell, Y>>}

LabRows ==
    {[kind |-> "lab", key |-> k, test_date |-> c[1], test_name |-> c[2],
      result |-> c[3]] : k \in KeyCells, c \in LabContents}

SoapCols == <<"RECORD_S", "RECORD_O", "RECORD_I", "RECORD_E", "RECORD_N">>

\* mapping of import_nursing: column -> record_type
mapping ==
    <<"Subjective", "Objective", "Intervention", "Evaluation", "NarrativeNote">>

SoapPatterns == {{}, {"RECORD_S"}, {"RECORD_O", "RECORD_E"},
                 {"RECORD_S", "RECORD_O", "RECORD_I", "RECORD_E", "RECORD_N"}}

GoodDate == IntCell(20240101)

T930 == StrCell(<<"9", "3", "0">>)

\* date and time columns
NursingTimes ==
    {<<GoodDate, T930>>, <<GoodDate, StrCell(<<"0", "9", ":", "3", "0">>)>>,
     <<GoodDate, StrCell(<<"9", "3", "0", ".", "0">>)>>, <<GoodDate, NaNCell>>,
     <<NaNCell, T930>>}

\* category and value columns
VitalCells == {<<X, Y>>, <<NaNCell, Y>>, <<X, Blank>>, <<NaNCell, Blank>>}

NursingRow(k, dt, v, sp) ==
    [kind |-> "nursing", key |-> k, date |-> dt[1], time |-> dt[2],
     vital_type |-> v[1], vital_value |-> v[2],
     soap |-> [j \in 1..5 |-> IF SoapCols[j] \in sp THEN X ELSE NaNCell]]

\* rows that vary the key and the timestamp, and rows that vary the content
NursingRows ==
    {NursingRow(k, dt, <<X, Y>>, {"RECORD_S"}) : k \in KeyCells, dt \in NursingTimes}
    \cup
    {NursingRow(IntCell(1), <<GoodDate, T930>>, v, sp) :
        v \in VitalCells, sp \in SoapPatterns}

NoRow == [kind |-> "none"]

\* the rows df.itertuples() can yield in importer n (1 summaries .. 4 nursing)
RowsOf(n) ==
    IF n = 1 THEN SummaryRows
    ELSE IF n = 2 THEN ConsultRows
    ELSE IF n = 3 THEN LabRows
    ELSE NursingRows

\* pd.to_datetime(cell, errors="coerce"): the datetime, None for NaT
to_datetime(cell) == IF cell.t = "ts" THEN cell.v ELSE None

\* t.zfill(4)
RECURSIVE ZFill4(_)
ZFill4(s) == IF Len(s) >= 4 THEN s ELSE ZFill4(<<"0">> \o s)

EndsWithDot0(s) == Len(s) >= 2 /\ s[Len(s) - 1] = "." /\ s[Len(s)] = "0"

\* the time column of a nursing row as import_nursing normalises it
NursingTime(r) ==
    LET t0 == Remove(Strip(PyStr(r.time)), ":")
        t1 == IF EndsWithDot0(t0) THEN SubSeq(t0, 1, Len(t0) - 2) ELSE t0
    IN ZFill4(t1)

\* pd.to_datetime(s, format="%Y%m%d%H%M", errors="coerce"): the twelve digits
\* when they are a date and a time, <<>> for NaT
ParseYmdHM(s) ==
    IF Len(s) = 12 /\ AllDigits(s)
          /\ DigitsToInt(SubSeq(s, 5, 6)) \in 1..12
          /\ DigitsToInt(SubSeq(s, 7, 8)) \in 1..31
          /\ DigitsToInt(SubSeq(s, 9, 10)) \in 0..23
          /\ DigitsToInt(SubSeq(s, 11, 12)) \in 0..59
    THEN s
    ELSE <<>>

\* ts of a nursing row: f"{d}{t}" parsed
NursingTs(r) ==
    CHOOSE ts \in {ParseYmdHM(s) : s \in {Strip(PyStr(r.date)) \o NursingTime(r)}} :
        TRUE

----------------------------------------------------------------------------
(* The store and the session *)

VARIABLES
    pc,         \* position of main: start, ping, loop, body, mc, commit,
                \*                   except, finally, done
    imp,        \* the importer running: 1 summaries, 2 consults, 3 labs, 4 nursing
    i,          \* enumerate(...) index of the current importer's loop
    rowsRead,   \* rows read so far in the run
    row,        \* the row r of the current iteration
    inserted,   \* the importer's inserted counter
    skipped,    \* the importer's skipped counter
    sess,       \* the session's objects (flushed or not)
    db,         \* the rows the open transaction sees
    durable,    \* the committed rows
    cache,      \* PatientCache.mrn_to_pid
    session,    \* "none", "open", "closed"
    opened,     \* number of SessionLocal() calls
    exc,        \* the exception in flight ("none" when there is none)
    op,         \* the store operation of the last step
    failure,    \* the store call that raised in this run ("none" so far)
    rolledBack, \* db.rollback() has been called
    created,    \* per key: number of Patient(...) add + flush
    returned,   \* per key: ids of the Patients get_or_create_patient returned
    sumKeys,    \* keys of the summary rows imported so far
    mrn_out     \* what a call of get_mrn_from_row on its own returned

vars == <<pc, imp, i, rowsRead, row, inserted, skipped, sess, db, durable, cache,
          session, opened, exc, op, failure, rolledBack, created, returned, sumKeys,
          mrn_out>>

\* auto_increment is the id the patients table gives to its next row
EmptyStore ==
    [patients |-> {}, notes |-> <<>>, consults |-> <<>>, labs |-> <<>>,
     nursing |-> <<>>, auto_increment |-> 1]

\* Patient(medical_record_no=mrn_str, name=mrn_str, ...): the Patient
\* get_or_create_patient builds, with the id the flush assigns
NewPatient(id, mrn_str) ==
    [id |-> id, medical_record_no |-> mrn_str, name |-> mrn_str,
     patient_category |-> "NHI General", gender |-> "M", weight |-> 0,
     department |-> "N/A", birthday |-> <<2000, 1, 1>>,
     created_by |-> IMPORT_USER_ID]

\* a store that already holds the Patient of key 1 and its DischargeNote
SeededStore ==
    [EmptyStore EXCEPT
        !.patients = {[NewPatient(1, IntToStr(1)) EXCEPT !.name = <<"o">>,
                                                        !.gender = "F"]},
        !.notes = <<[patient_id |-> 1, created_by |-> IMPORT_USER_ID,
                     chief_complaint |-> <<"o">>, treatment_course |-> <<"o">>,
                     diagnosis |-> <<>>]>>,
        !.auto_increment = 2]

InitStores == {EmptyStore, SeededStore}

\* the id the store assigns to the next Patient (autoincrement): ids of
\* deleted rows are not given again
NextId(d) == d.auto_increment

\* db.get(Patient, id): the id of the Patient found, None when there is none
DbGet(d, id) == IF \E p \in d.patients : p.id = id THEN id ELSE None

\* the query with a filter that matches no row
QueryPatientNoMatch(d, mrn_str) == None

\* db.query(Patient).filter(Patient.medical_record_no == mrn_str).first()
QueryPatient(d, mrn_str) ==
    LET found == {p.id : p \in {q \in d.patients : q.medical_record_no = mrn_str}}
    IN IF found = {} THEN None ELSE CHOOSE m \in found : \A n \in found : m <= n

\* get_or_create_patient that caches the key of a new Patient as its id
get_or_create_patient_keyed(s, d, c, mrn) ==
    LET cached == c[mrn]
        hit == IF cached # None THEN DbGet(d, cached) ELSE None
        mrn_str == IntToStr(mrn)
        q == QueryPatient(d, mrn_str)
        id == NextId(d)
        s2 == [s EXCEPT !.patients = @ \cup {NewPatient(id, mrn_str)},
                        !.auto_increment = id + 1]
    IN IF hit # None
       THEN [pid |-> hit, sess |-> s, db |-> d, cache |-> c, created |-> FALSE]
       ELSE IF q # None
       THEN [pid |-> q, sess |-> s, db |-> d, cache |-> [c EXCEPT ![mrn] = q],
             created |-> FALSE]
       ELSE [pid |-> id, sess |-> s2, db |-> s2, cache |-> [c EXCEPT ![mrn] = mrn],
             created |-> TRUE]

\* get_or_create_patient that trusts a cached id without db.get
get_or_create_patient_trusting(s, d, c, mrn) ==
    LET cached == c[mrn]
        mrn_str == IntToStr(mrn)
        q == QueryPatient(d, mrn_str)
        id == NextId(d)
        s2 == [s EXCEPT !.patients = @ \cup {NewPatient(id, mrn_str)},
                        !.auto_increment = id + 1]
    IN IF cached # None
       THEN [pid |-> cached, sess |-> s, db |-> d, cache |-> c, created |-> FALSE]
       ELSE IF q # None
       THEN [pid |-> q, sess |-> s, db |-> d, cache |-> [c EXCEPT ![mrn] = q],
             created |-> FALSE]
       ELSE [pid |-> id, sess |-> s2, db |-> s2, cache |-> [c EXCEPT ![mrn] = id],
             created |-> TRUE]

\* get_or_create_patient(db, mrn, cache): the id of the Patient returned and
\* the session, transaction and cache it leaves
get_or_create_patient(s, d, c, mrn) ==
    LET cached == c[mrn]
        hit == IF cached # None THEN DbGet(d, cached) ELSE None
        mrn_str == IntToStr(mrn)
        q == QueryPatient(d, mrn_str)
        id == NextId(d)
        s2 == [s EXCEPT !.patients = @ \cup {NewPatient(id, mrn_str)},
                        !.auto_increment = id + 1]
    IN IF hit # None
       THEN [pid |-> hit, sess |-> s, db |-> d, cache |-> c, created |-> FALSE]
       ELSE IF q # None
       THEN [pid |-> q, sess |-> s, db |-> d, cache |-> [c EXCEPT ![mrn] = q],
             created |-> FALSE]
       ELSE [pid |-> id, sess |-> s2, db |-> s2, cache |-> [c EXCEPT ![mrn] = id],
             created |-> TRUE]

\* db.add(obj) with a check against the records already held
db_add_unique(records, obj) ==
    IF \E n \in 1..Len(records) : records[n] = obj THEN records
    ELSE Append(records, obj)

\* db.add(obj): obj becomes a new record of its kind in the session
db_add(records, obj) == Append(records, obj)

\* db.add of each of objs, in order
RECURSIVE db_add_all(_, _)
db_add_all(records, objs) ==
    IF objs = <<>> THEN records
    ELSE db_add_all(db_add(records, Head(objs)), Tail(objs))

Init ==
    /\ pc = "start"
    /\ imp = 0
    /\ i = 0
    /\ rowsRead = 0
    /\ row = NoRow
    /\ inserted = 0
    /\ skipped = 0
    /\ durable \in InitStores
    /\ sess = durable
    /\ db = durable
    /\ cache = [k \in Keys |-> None]
    /\ session = "none"
    /\ opened = 0
    /\ exc = "none"
    /\ op = "none"
    /\ failure = "none"
    /\ rolledBack = FALSE
    /\ created = [k \in Keys |-> 0]
    /\ returned = [k \in Keys |-> {}]
    /\ sumKeys = {}
    /\ mrn_out = None

----------------------------------------------------------------------------
(* main *)

\* db = SessionLocal(); cache = PatientCache()
OpenSession ==
    /\ pc = "start"
    /\ session' = "open"
    /\ opened' = opened + 1
    /\ cache' = [k \in Keys |-> None]
    /\ pc' = "ping"
    /\ op' = "none"
    /\ UNCHANGED <<mrn_out, imp, i, rowsRead, row, inserted, skipped, sess,
                   db, durable, exc, failure, rolledBack, created, returned,
                   sumKeys>>

\* db_ping(db): SELECT 1 succeeds, or raises
DbPing ==
    /\ pc = "ping"
    /\ op' = "ping"
    /\ \/ /\ pc' = "loop"
          /\ imp' = 1
          /\ UNCHANGED <<exc, failure>>
       \/ /\ pc' = "except"
          /\ exc' = "StoreError"
          /\ failure' = "ping"
          /\ UNCHANGED imp
    /\ UNCHANGED <<mrn_out, i, rowsRead, row, inserted, skipped, sess, db,
                   durable, cache, session, opened, rolledBack, created,
                   returned, sumKeys>>

\* for i, r in enumerate(df.itertuples(index=False), start=1): the next row,
\* or the end of the frame (an empty frame returns at once)
NextRow ==
    /\ pc = "loop"
    /\ op' = "none"
    /\ \/ /\ rowsRead < MaxRows
          /\ \E r \in RowsOf(imp) : row' = r
          /\ i' = i + 1
          /\ rowsRead' = rowsRead + 1
          /\ pc' = "body"
       \/ /\ pc' = "commit"
          /\ UNCHANGED <<row, i, rowsRead>>
    /\ UNCHANGED <<mrn_out, imp, inserted, skipped, sess, db, durable, cache,
                   session, opened, exc, failure, rolledBack, created,
                   returned, sumKeys>>

----------------------------------------------------------------------------
(* The importers: one iteration of the loop body, up to the call of
   maybe_commit *)

\* what a call of get_or_create_patient leaves in the cache and in the history
Resolved(g, mrn) ==
    /\ cache' = g.cache
    /\ created' = IF g.created THEN [created EXCEPT ![mrn] = @ + 1] ELSE created
    /\ returned' = [returned EXCEPT ![mrn] = @ \cup {g.pid}]
    /\ op' = IF g.created THEN "flush" ELSE "none"

\* a row without key counted as inserted instead of skipped
SkipNoKeyInserted ==
    /\ inserted' = inserted + 1
    /\ pc' = "loop"
    /\ op' = "none"
    /\ UNCHANGED <<skipped, sess, db, cache, created, returned, sumKeys>>

\* mrn is None: skipped += 1; continue
SkipNoKey ==
    /\ skipped' = skipped + 1
    /\ pc' = "loop"
    /\ op' = "none"
    /\ UNCHANGED <<inserted, sess, db, cache, created, returned, sumKeys>>

\* a skipped row that leaves its half-built record in the session
SkipResolvedKeepsRecord(g, mrn) ==
    /\ Resolved(g, mrn)
    /\ skipped' = skipped + 1
    /\ pc' = "loop"
    /\ sess' = [g.sess EXCEPT !.consults = db_add(@, [patient_id |-> g.pid])]
    /\ db' = g.db
    /\ UNCHANGED <<inserted, sumKeys>>

\* skipped += 1; continue, after the Patient has been resolved
SkipResolved(g, mrn) ==
    /\ Resolved(g, mrn)
    /\ skipped' = skipped + 1
    /\ pc' = "loop"
    /\ sess' = g.sess
    /\ db' = g.db
    /\ UNCHANGED <<inserted, sumKeys>>

\* the diagnosis_list add_diag builds from the four diagnosis columns
DiagnosisList(r) ==
    LET all == [j \in 1..4 |->
                   [category |-> DiagCols[j], diagnosis |-> clean_text(r.diag[j]),
                    code |-> None, date_diagnosed |-> None]]
    IN SelectSeq(all, LAMBDA e : e.diagnosis # <<>>)

\* the rows db.query(DischargeNote).filter(patient_id == pid) selects
NotesOf(d, pid) == {j \in 1..Len(d.notes) : d.notes[j].patient_id = pid}

ImportSummariesRow ==
    /\ pc = "body"
    /\ imp = 1
    /\ \E mrn \in {get_mrn_from_row(row)} :
          IF mrn = None
          THEN SkipNoKey
          ELSE \E g \in {get_or_create_patient(sess, db, cache, mrn)} :
               LET found == NotesOf(g.db, g.pid)
                   fresh == [patient_id |-> g.pid, created_by |-> IMPORT_USER_ID,
                             chief_complaint |-> <<>>, treatment_course |-> <<>>,
                             diagnosis |-> <<>>]
                   fill(n) == [n EXCEPT !.chief_complaint = clean_text(row.chief),
                                        !.treatment_course = clean_text(row.treatment),
                                        !.diagnosis = DiagnosisList(row)]
               IN /\ Resolved(g, mrn)
                  /\ IF found = {}
                     THEN sess' = [g.sess EXCEPT !.notes = db_add(@, fill(fresh))]
                     ELSE \E j \in found :
                              sess' = [g.sess EXCEPT !.notes[j] = fill(@)]
                  /\ db' = g.db
                  /\ inserted' = inserted + 1
                  /\ sumKeys' = sumKeys \cup {mrn}
                  /\ pc' = "mc"
                  /\ UNCHANGED skipped
    /\ row' = NoRow
    /\ UNCHANGED <<mrn_out, imp, i, rowsRead, durable, session, opened, exc,
                   failure, rolledBack>>

ImportConsultsRow ==
    /\ pc = "body"
    /\ imp = 2
    /\ \E mrn \in {get_mrn_from_row(row)} :
          IF mrn = None
          THEN SkipNoKey
          ELSE \E g \in {get_or_create_patient(sess, db, cache, mrn)} :
               LET ts == to_datetime(row.reply_time)
                   content == clean_text(row.reply_content)
                   c == [patient_id |-> g.pid, consultation_date |-> ts,
                         original_content |-> content,
                         nurse_confirmation |-> content,
                         created_by |-> IMPORT_USER_ID, status |-> "confirmed"]
               IN IF ts = None \/ content = <<>>
                  THEN SkipResolved(g, mrn)
                  ELSE /\ Resolved(g, mrn)
                       /\ sess' = [g.sess EXCEPT !.consults = db_add(@, c)]
                       /\ db' = g.db
                       /\ inserted' = inserted + 1
                       /\ pc' = "mc"
                       /\ UNCHANGED <<skipped, sumKeys>>
    /\ row' = NoRow
    /\ UNCHANGED <<mrn_out, imp, i, rowsRead, durable, session, opened, exc,
                   failure, rolledBack>>

ImportLabsRow ==
    /\ pc = "body"
    /\ imp = 3
    /\ \E mrn \in {get_mrn_from_row(row)} :
          IF mrn = None
          THEN SkipNoKey
          ELSE \E g \in {get_or_create_patient(sess, db, cache, mrn)} :
               LET d == to_datetime(row.test_date)
                   test_name == clean_text(row.test_name)
                   result == clean_text(row.result)
                   lab == [patient_id |-> g.pid, test_name |-> test_name,
                           test_date |-> d, result_value |-> result,
                           flag |-> "NORMAL"]
               IN IF d = None \/ (test_name = <<>> /\ result = <<>>)
                  THEN SkipResolved(g, mrn)
                  ELSE /\ Resolved(g, mrn)
                       /\ sess' = [g.sess EXCEPT !.labs = db_add(@, lab)]
                       /\ db' = g.db
                       /\ inserted' = inserted + 1
                       /\ pc' = "mc"
                       /\ UNCHANGED <<skipped, sumKeys>>
    /\ row' = NoRow
    /\ UNCHANGED <<mrn_out, imp, i, rowsRead, durable, session, opened, exc,
                   failure, rolledBack>>

\* the VitalSign note emitted when either of the two columns is filled
VitalNotesEither(r, pid, ts) ==
    LET vital_type == clean_text(r.vital_type)
        vital_value == clean_text(r.vital_value)
    IN IF vital_type # <<>> \/ vital_value # <<>>
       THEN <<[patient_id |-> pid, record_time |-> ts, record_type |-> "VitalSign",
               content |-> <<"type:">> \o vital_type \o <<"|value:">> \o vital_value,
               created_by |-> IMPORT_USER_ID]>>
       ELSE <<>>

\* the VitalSign note of a nursing row: <<>> or one NursingNote
VitalNotes(r, pid, ts) ==
    LET vital_type == clean_text(r.vital_type)
        vital_value == clean_text(r.vital_value)
    IN IF vital_type # <<>> /\ vital_value # <<>>
       THEN <<[patient_id |-> pid, record_time |-> ts, record_type |-> "VitalSign",
               content |-> <<"type:">> \o vital_type \o <<"|value:">> \o vital_value,
               created_by |-> IMPORT_USER_ID]>>
       ELSE <<>>

\* the notes of the SOAP columns of a nursing row, in the order of mapping
SoapNotes(r, pid, ts) ==
    LET all == [j \in 1..5 |->
                   [patient_id |-> pid, record_time |-> ts,
                    record_type |-> mapping[j], content |-> clean_text(r.soap[j]),
                    created_by |-> IMPORT_USER_ID]]
    IN SelectSeq(all, LAMBDA n : n.content # <<>>)

ImportNursingRow ==
    /\ pc = "body"
    /\ imp = 4
    /\ \E mrn \in {get_mrn_from_row(row)} :
          IF mrn = None
          THEN SkipNoKey
          ELSE \E g \in {get_or_create_patient(sess, db, cache, mrn)},
                  ts \in {NursingTs(row)} :
               \E notes \in {VitalNotes(row, g.pid, ts) \o SoapNotes(row, g.pid, ts)} :
                  IF ts = <<>>
                  THEN SkipResolved(g, mrn)
                  ELSE /\ Resolved(g, mrn)
                       /\ \E held \in {db_add_all(g.sess.nursing, notes)} :
                              sess' = [g.sess EXCEPT !.nursing = held]
                       /\ db' = g.db
                       /\ inserted' = inserted + Len(notes)
                       /\ pc' = "mc"
                       /\ UNCHANGED <<skipped, sumKeys>>
    /\ row' = NoRow
    /\ UNCHANGED <<mrn_out, imp, i, rowsRead, durable, session, opened, exc,
                   failure, rolledBack>>

\* db.get or a query of the row raises: nothing has been staged for the row
RowQueryFails ==
    /\ pc = "body"
    /\ get_mrn_from_row(row) # None
    /\ pc' = "except"
    /\ exc' = "StoreError"
    /\ failure' = "query"
    /\ op' = "none"
    /\ row' = NoRow
    /\ UNCHANGED <<mrn_out, imp, i, rowsRead, inserted, skipped, sess, db,
                   durable, cache, session, opened, rolledBack, created,
                   returned, sumKeys>>

\* db.flush() of get_or_create_patient raises: the Patient was added to the
\* session, no id was assigned and the cache was not set
RowFlushFails ==
    /\ pc = "body"
    /\ \E mrn \in {get_mrn_from_row(row)} :
          /\ mrn # None
          /\ \E g \in {get_or_create_patient(sess, db, cache, mrn)} :
                 /\ g.created
                 /\ sess' = g.sess
    /\ pc' = "except"
    /\ exc' = "StoreError"
    /\ failure' = "flush"
    /\ op' = "none"
    /\ row' = NoRow
    /\ UNCHANGED <<mrn_out, imp, i, rowsRead, inserted, skipped, db, durable,
                   cache, session, opened, rolledBack, created, returned,
                   sumKeys>>

----------------------------------------------------------------------------
(* Commits *)

\* maybe_commit(db, inserted, label, row_i)
MaybeCommit ==
    /\ pc = "mc"
    /\ IF inserted % COMMIT_BATCH # 0
       THEN /\ pc' = "loop"
            /\ op' = "none"
            /\ UNCHANGED <<sess, db, durable, exc, failure, rolledBack>>
       ELSE \/ /\ durable' = sess
               /\ db' = sess
               /\ op' = "commit"
               /\ pc' = "loop"
               /\ UNCHANGED <<sess, exc, failure, rolledBack>>
            \/ /\ sess' = durable
               /\ db' = durable
               /\ op' = "commit_failed"
               /\ rolledBack' = TRUE
               /\ exc' = "StoreError"
               /\ failure' = "commit"
               /\ pc' = "except"
               /\ UNCHANGED durable
    /\ UNCHANGED <<mrn_out, imp, i, rowsRead, row, inserted, skipped, cache,
                   session, opened, created, returned, sumKeys>>

\* main going on to the next importer without its db.commit()
MainNoCommit ==
    /\ pc = "commit"
    /\ op' = "none"
    /\ IF imp < 4
       THEN /\ imp' = imp + 1
            /\ pc' = "loop"
       ELSE /\ pc' = "finally"
            /\ UNCHANGED imp
    /\ i' = 0
    /\ inserted' = 0
    /\ skipped' = 0
    /\ UNCHANGED <<mrn_out, sess, db, durable, exc, failure, rowsRead, row,
                   cache, session, opened, rolledBack, created, returned,
                   sumKeys>>

\* a db.commit() of main whose failure is swallowed: the next importer runs
MainCommitSwallowed ==
    /\ pc = "commit"
    /\ \/ /\ durable' = sess
          /\ db' = sess
          /\ op' = "commit"
       \/ /\ op' = "commit_failed"
          /\ UNCHANGED <<db, durable>>
    /\ IF imp < 4
       THEN /\ imp' = imp + 1
            /\ pc' = "loop"
       ELSE /\ pc' = "finally"
            /\ UNCHANGED imp
    /\ i' = 0
    /\ inserted' = 0
    /\ skipped' = 0
    /\ UNCHANGED <<mrn_out, sess, exc, failure, rowsRead, row, cache, session,
                   opened, rolledBack, created, returned, sumKeys>>

\* the db.commit() of main after an importer has returned
MainCommit ==
    /\ pc = "commit"
    /\ \/ /\ durable' = sess
          /\ db' = sess
          /\ op' = "commit"
          /\ IF imp < 4
             THEN /\ imp' = imp + 1
                  /\ pc' = "loop"
             ELSE /\ pc' = "finally"
                  /\ UNCHANGED imp
          /\ i' = 0
          /\ inserted' = 0
          /\ skipped' = 0
          /\ UNCHANGED <<sess, exc, failure>>
       \/ /\ op' = "commit_failed"
          /\ exc' = "StoreError"
          /\ failure' = "commit"
          /\ pc' = "except"
          /\ UNCHANGED <<imp, i, inserted, skipped, sess, db, durable>>
    /\ UNCHANGED <<mrn_out, rowsRead, row, cache, session, opened, rolledBack,
                   created, returned, sumKeys>>

\* a rollback that undoes the whole run, committed batches included
ExceptUndoRun ==
    /\ pc = "except"
    /\ sess' = EmptyStore
    /\ db' = EmptyStore
    /\ durable' = EmptyStore
    /\ rolledBack' = TRUE
    /\ op' = "rollback"
    /\ pc' = "finally"
    /\ UNCHANGED <<mrn_out, imp, i, rowsRead, row, inserted, skipped, cache,
                   session, opened, exc, failure, created, returned, sumKeys>>

\* except Exception: db.rollback(); raise
Except ==
    /\ pc = "except"
    /\ sess' = durable
    /\ db' = durable
    /\ rolledBack' = TRUE
    /\ op' = "rollback"
    /\ pc' = "finally"
    /\ UNCHANGED <<mrn_out, imp, i, rowsRead, row, inserted, skipped, durable,
                   cache, session, opened, exc, failure, created, returned,
                   sumKeys>>

\* a cleanup that does not close the session
FinallyNoClose ==
    /\ pc = "finally"
    /\ op' = "none"
    /\ exc' = "NameError"
    /\ pc' = "done"
    /\ UNCHANGED <<mrn_out, imp, i, rowsRead, row, inserted, skipped, sess,
                   db, durable, cache, session, opened, failure, rolledBack,
                   created, returned, sumKeys>>

\* finally: db.close(); then the log line that names LOG_PATH, which is
\* defined nowhere: NameError replaces whatever was in flight
Finally ==
    /\ pc = "finally"
    /\ session' = "closed"
    /\ op' = "close"
    /\ exc' = "NameError"
    /\ pc' = "done"
    /\ UNCHANGED <<mrn_out, imp, i, rowsRead, row, inserted, skipped, sess,
                   db, durable, cache, opened, failure, rolledBack, created,
                   returned, sumKeys>>

Next ==
    \/ OpenSession
    \/ DbPing
    \/ NextRow
    \/ ImportSummariesRow
    \/ ImportConsultsRow
    \/ ImportLabsRow
    \/ ImportNursingRow
    \/ RowQueryFails
    \/ RowFlushFails
    \/ MaybeCommit
    \/ MainCommit
    \/ Except
    \/ Finally

Spec == Init /\ [][Next]_vars

\* main is one sequential thread: it always takes its next step
FairSpec == Spec /\ WF_vars(Next)

----------------------------------------------------------------------------
(* Properties *)

IsPrefix(a, b) == Len(a) <= Len(b) /\ SubSeq(b, 1, Len(a)) = a

\* domain records the session holds that are not committed
Staged ==
    (Len(sess.notes) - Len(durable.notes))
        + (Len(sess.consults) - Len(durable.consults))
        + (Len(sess.labs) - Len(durable.labs))
        + (Len(sess.nursing) - Len(durable.nursing))

UniqueKeys(d) ==
    \A p, q \in d.patients : p.medical_record_no = q.medical_record_no => p = q

\* C1: as long as nothing has been rolled back, every call of
\* get_or_create_patient for a key returned the same Patient id, the Patient
\* of a key was created (add + flush) at most once, and no two Patients of
\* the store have the same business key.
C1_SamePatientCreatedOnce ==
    ~rolledBack =>
        /\ \A k \in Keys : Cardinality(returned[k]) <= 1 /\ created[k] <= 1
        /\ UniqueKeys(sess)
        /\ UniqueKeys(db)
        /\ UniqueKeys(durable)

\* a key resolved by the summary importer and again by the consult importer,
\* its Patient created once
C1_Witness ==
    /\ ~rolledBack
    /\ imp = 2
    /\ \E k \in sumKeys :
         /\ created[k] = 1
         /\ \E n \in 1..Len(sess.consults) :
                sess.consults[n].patient_id \in returned[k]

\* C2: after any sequence of summary rows (nothing rolled back), the store
\* holds exactly one DischargeNote for the Patient of every key that appeared.
C2_OneNotePerPatient ==
    ~rolledBack =>
        \A k \in sumKeys :
            \A pid \in returned[k] : Cardinality(NotesOf(sess, pid)) = 1

\* C3: maybe_commit commits exactly when inserted is a positive multiple of
\* COMMIT_BATCH, and otherwise leaves the transaction as it is.
C3_CommitIffPositiveMultiple ==
    [][pc = "mc" =>
        /\ (op' \in {"commit", "commit_failed"})
              <=> (inserted > 0 /\ inserted % COMMIT_BATCH = 0)
        /\ (op' \notin {"commit", "commit_failed"})
              => UNCHANGED <<sess, db, durable>>]_vars

\* C4: between two rows of an importer (maybe_commit has run for the row
\* before), at most COMMIT_BATCH domain records are staged and not committed.
C4_StagedAtMostBatch == pc = "loop" => Staged <= COMMIT_BATCH

\* C5: after a failed commit nothing staged is or becomes durable, no further
\* row or importer is processed, and the commit's exception is what leaves main.
C5_CommitFailureAborts ==
    /\ [][failure = "commit" =>
            /\ durable' = durable
            /\ rowsRead' = rowsRead
            /\ imp' = imp]_vars
    /\ []((failure = "commit" /\ pc \in {"finally", "done"})
            => (sess = durable /\ db = durable))
    /\ []((failure = "commit" /\ pc = "done") => exc = "StoreError")

\* the part of C5 about the store and the rows, without the exception that
\* leaves main
CommitFailureRollsBack ==
    /\ [][failure = "commit" =>
            /\ durable' = durable
            /\ rowsRead' = rowsRead
            /\ imp' = imp]_vars
    /\ []((failure = "commit" /\ pc \in {"finally", "done"})
            => (sess = durable /\ db = durable))

\* C6: when an importer has returned and main's commit after it has succeeded,
\* everything the session holds is committed: nothing is pending when the next
\* importer starts or when the run ends without failure.
C6_NothingPendingAfterImporter ==
    ((pc = "loop" /\ i = 0) \/ (pc \in {"finally", "done"} /\ failure = "none"))
        => (durable = sess /\ db = sess)

\* the consult importer starts; the one summary row of the run (no batch
\* boundary reached) and its new Patient are committed
C6_Witness ==
    /\ pc = "loop"
    /\ imp = 2
    /\ i = 0
    /\ rowsRead = 1
    /\ Len(durable.notes) = 1
    /\ \E k \in Keys : created[k] = 1
    /\ \E p \in durable.patients : p.id = durable.notes[1].patient_id

\* C7: one session is opened per run; once opened it is closed on every exit
\* of main, and it is closed only when main is over.
C7_SessionClosedOnExit ==
    /\ [](opened <= 1 /\ (pc # "start" => opened = 1))
    /\ [](pc = "done" => session = "closed")
    /\ [](session = "closed" => pc = "done")
    /\ (session = "open" ~> session = "closed")

\* the session closed after a failed commit
C7_Witness == session = "closed" /\ failure = "commit" /\ opened = 1

\* C8: a row whose key is None adds one to skipped and changes nothing else:
\* no Patient, no record, cache and inserted as before, no maybe_commit.
C8_NoKeyRowOnlySkips ==
    [][(pc = "body" /\ get_mrn_from_row(row) = None) =>
        /\ skipped' = skipped + 1
        /\ pc' = "loop"
        /\ op' = "none"
        /\ UNCHANGED <<sess, db, durable, cache, inserted, created, returned,
                       failure, exc>>]_vars

\* two summary rows without key: both skipped, the store and cache untouched
C8_Witness ==
    /\ imp = 1
    /\ pc = "loop"
    /\ i = 2
    /\ skipped = 2
    /\ inserted = 0
    /\ sess = durable
    /\ \A k \in Keys : cache[k] = None

ValidConsult(r) ==
    /\ get_mrn_from_row(r) # None
    /\ to_datetime(r.reply_time) # None
    /\ clean_text(r.reply_content) # <<>>

ValidLab(r) ==
    /\ get_mrn_from_row(r) # None
    /\ to_datetime(r.test_date) # None
    /\ (clean_text(r.test_name) # <<>> \/ clean_text(r.result) # <<>>)

\* C9: in the consult, lab and nursing importers every step that rolls nothing
\* back keeps every record the session and the store hold, unchanged and in
\* place, and a valid consult or lab row adds one record whatever is there.
C9_AppendOnly ==
    [][(imp \in 2..4 /\ pc \in {"body", "mc"} /\ ~rolledBack') =>
        /\ sess'.notes = sess.notes
        /\ IsPrefix(sess.consults, sess'.consults)
        /\ IsPrefix(sess.labs, sess'.labs)
        /\ IsPrefix(sess.nursing, sess'.nursing)
        /\ durable'.notes = durable.notes
        /\ IsPrefix(durable.consults, durable'.consults)
        /\ IsPrefix(durable.labs, durable'.labs)
        /\ IsPrefix(durable.nursing, durable'.nursing)
        /\ (pc = "body" /\ imp = 2 /\ ValidConsult(row) /\ pc' # "except")
              => Len(sess'.consults) = Len(sess.consults) + 1
        /\ (pc = "body" /\ imp = 3 /\ ValidLab(row) /\ pc' # "except")
              => Len(sess'.labs) = Len(sess.labs) + 1]_vars

\* the same consult row imported twice: two equal ConsultationRecords
C9_Witness ==
    /\ Len(sess.consults) = 2
    /\ sess.consults[1] = sess.consults[2]

\* number of NursingNotes a nursing row calls for
NotesCalledFor(r) ==
    (IF clean_text(r.vital_type) # <<>> /\ clean_text(r.vital_value) # <<>>
        THEN 1 ELSE 0)
        + Cardinality({j \in 1..5 : clean_text(r.soap[j]) # <<>>})

\* C10: a nursing row with a key and a parseable timestamp stages one note for
\* the vital pair when both are filled plus one per filled SOAP column, at most
\* six, all with the row's timestamp and Patient, and inserted grows by as many.
C10_NursingNoteCount ==
    [][(pc = "body" /\ imp = 4 /\ get_mrn_from_row(row) # None
            /\ NursingTs(row) # <<>> /\ pc' # "except") =>
        LET n == NotesCalledFor(row)
            new == SubSeq(sess'.nursing, Len(sess.nursing) + 1, Len(sess'.nursing))
        IN /\ Len(sess'.nursing) = Len(sess.nursing) + n
           /\ n <= 6
           /\ inserted' = inserted + n
           /\ \A a \in 1..Len(new) :
                  /\ new[a].record_time = NursingTs(row)
                  /\ new[a].patient_id \in returned'[get_mrn_from_row(row)]
                  /\ \A b \in 1..Len(new) :
                         /\ new[a].record_time = new[b].record_time
                         /\ new[a].patient_id = new[b].patient_id]_vars

\* a nursing row that staged one VitalSign note and two SOAP notes
C10_Witness ==
    /\ imp = 4
    /\ pc = "mc"
    /\ i = 1
    /\ inserted = 3
    /\ Len(sess.nursing) = 3
    /\ sess.nursing[1].record_type = "VitalSign"
    /\ sess.nursing[2].record_time = sess.nursing[1].record_time
    /\ sess.nursing[3].record_time = sess.nursing[1].record_time

----------------------------------------------------------------------------
(* The run next to another client of the store *)

\* the Patient with id pid has no DischargeNote, Consultation, LabReport or
\* NursingNote (a row other rows refer to cannot be deleted)
Unreferenced(d, pid) ==
    /\ \A n \in 1..Len(d.notes) : d.notes[n].patient_id # pid
    /\ \A n \in 1..Len(d.consults) : d.consults[n].patient_id # pid
    /\ \A n \in 1..Len(d.labs) : d.labs[n].patient_id # pid
    /\ \A n \in 1..Len(d.nursing) : d.nursing[n].patient_id # pid

\* the Patient rows another client can remove: committed, cached by this run,
\* referred to by no record, while this run has nothing in flight (its next
\* statement opens a new transaction, which sees the removal)
Removable ==
    IF pc = "loop" /\ sess = durable /\ db = durable
    THEN {p \in durable.patients :
             /\ \E k \in Keys : cache[k] = p.id
             /\ Unreferenced(durable, p.id)}
    ELSE {}

\* another client deletes a Patient row this run has cached: from now on
\* db.get(Patient, cached) finds nothing
ExternalDelete ==
    /\ \E p \in Removable :
          \E d \in {[durable EXCEPT !.patients = @ \ {p}]} :
              /\ durable' = d
              /\ db' = d
              /\ sess' = d
    /\ op' = "none"
    /\ UNCHANGED <<pc, imp, i, rowsRead, row, inserted, skipped, cache, session,
                   opened, exc, failure, rolledBack, created, returned, sumKeys,
                   mrn_out>>

\* another client deletes a Patient row this run has cached and inserts the
\* Patient again, under a new id and the same medical_record_no
ExternalReplace ==
    /\ \E p \in Removable :
          \E d \in {[durable EXCEPT
                        !.patients = (@ \ {p}) \cup {[p EXCEPT !.id = NextId(durable)]},
                        !.auto_increment = @ + 1]} :
              /\ durable' = d
              /\ db' = d
              /\ sess' = d
    /\ op' = "none"
    /\ UNCHANGED <<pc, imp, i, rowsRead, row, inserted, skipped, cache, session,
                   opened, exc, failure, rolledBack, created, returned, sumKeys,
                   mrn_out>>

TamperNext ==
    \/ Next
    \/ ExternalDelete
    \/ ExternalReplace

TamperSpec == Init /\ [][TamperNext]_vars

----------------------------------------------------------------------------
(* get_mrn_from_row called on its own, on every kind of key cell *)

\* largest key number of the cells below; 2000 is always among them
MaxMrn == 15

KeyNumbers == (0..MaxMrn) \cup {2000}

\* what the key cell of a row can hold: nothing (no such column), NaN, an
\* empty or blank string, text that is no number, an integer, its decimal
\* string and its float-formatted string
KeyInputs ==
    {NoneCell, NaNCell, StrCell(<<>>), Blank, StrCell(<<"a">>),
     StrCell(<<"1", "a">>), StrCell(<<"1", " ", "2">>), StrCell(<<".">>),
     StrCell(<<"1", ".", "0", ".", "0">>)}
        \cup {IntCell(n) : n \in KeyNumbers}
        \cup {StrCell(IntToStr(n)) : n \in KeyNumbers}
        \cup {StrCell(IntToStr(n) \o <<".", "0">>) : n \in KeyNumbers}

KeyRows == {[kind |-> "key", key |-> c] : c \in KeyInputs}

\* a row r about to be handed to get_mrn_from_row, nothing else going on
KeyInit ==
    /\ pc = "call"
    /\ row \in KeyRows
    /\ mrn_out = None
    /\ imp = 0
    /\ i = 0
    /\ rowsRead = 0
    /\ inserted = 0
    /\ skipped = 0
    /\ durable = EmptyStore
    /\ sess = durable
    /\ db = durable
    /\ cache = [k \in Keys |-> None]
    /\ session = "none"
    /\ opened = 0
    /\ exc = "none"
    /\ op = "none"
    /\ failure = "none"
    /\ rolledBack = FALSE
    /\ created = [k \in Keys |-> 0]
    /\ returned = [k \in Keys |-> {}]
    /\ sumKeys = {}

\* mrn = get_mrn_from_row(r): every exception inside is caught, so the call
\* returns
KeyCall ==
    /\ pc = "call"
    /\ mrn_out' = get_mrn_from_row(row)
    /\ pc' = "returned"
    /\ UNCHANGED <<imp, i, rowsRead, row, inserted, skipped, sess, db, durable,
                   cache, session, opened, exc, op, failure, rolledBack, created,
                   returned, sumKeys>>

KeyNext == KeyCall

KeySpec == KeyInit /\ [][KeyNext]_vars

----------------------------------------------------------------------------
(* C11 *)

\* a string with a character that is neither a digit nor the decimal point
NonNumeric(s) == \E j \in 1..Len(s) : ~IsDigit(s[j]) /\ s[j] # "."

\* C11: get_mrn_from_row returns without an exception; for a key cell holding
\* the integer n, the string of n or the float-formatted string of n (n = 2000
\* among them) it returns n, and for an absent, NaN, empty or non-numeric key
\* cell it returns None.
C11_KeyOfEveryCell ==
    pc = "returned" =>
        /\ exc = "none"
        /\ \A n \in KeyNumbers :
              row.key \in {IntCell(n), StrCell(IntToStr(n)),
                           StrCell(IntToStr(n) \o <<".", "0">>)}
                  => mrn_out = n
        /\ row.key \in {NoneCell, NaNCell} => mrn_out = None
        /\ (row.key.t = "str" /\ (Strip(row.key.s) = <<>> \/ NonNumeric(Strip(row.key.s))))
              => mrn_out = None

C11_Witness ==
    /\ pc = "returned"
    /\ row.key = StrCell(<<"2", "0", "0", "0", ".", "0">>)
    /\ mrn_out = 2000

----------------------------------------------------------------------------
(* C12 *)

\* number of domain records the session holds
Records(s) == Len(s.notes) + Len(s.consults) + Len(s.labs) + Len(s.nursing)

\* C12: every row an importer processes without an exception either adds one
\* to skipped and nothing to inserted, or adds to inserted the number of
\* records it staged, at least one (a summary row writes one DischargeNote, new
\* or found); a nursing row with a key and a timestamp but no content is
\* counted as skipped.
C12_EveryRowAccounted ==
    [][(pc = "body" /\ pc' # "except") =>
          \/ /\ skipped' = skipped + 1
             /\ inserted' = inserted
             /\ Records(sess') = Records(sess)
          \/ /\ skipped' = skipped
             /\ inserted' > inserted
             /\ imp = 1 => inserted' = inserted + 1
             /\ imp # 1 => inserted' - inserted = Records(sess') - Records(sess)]_vars

----------------------------------------------------------------------------
(* C13 *)

\* the DischargeNote n holds exactly the values of the summary row r
HoldsRow(n, r) ==
    /\ n.chief_complaint = clean_text(r.chief)
    /\ n.treatment_course = clean_text(r.treatment)
    /\ n.diagnosis = DiagnosisList(r)

\* a summary row with a key has been processed without an exception
SummaryStep ==
    /\ pc = "body"
    /\ imp = 1
    /\ get_mrn_from_row(row) # None
    /\ pc' # "except"

\* C13: a summary row with a key is counted as inserted, never as skipped,
\* whatever its content, and after it the DischargeNote content of its Patient
\* is exactly the row's chief complaint, treatment course and diagnosis list:
\* no DischargeNote of that Patient still holds what an earlier row wrote.
C13_SummaryRowReplaces ==
    [][SummaryStep =>
          /\ inserted' = inserted + 1
          /\ skipped' = skipped
          /\ NotesOf(sess', cache'[get_mrn_from_row(row)]) # {}
          /\ \A j \in NotesOf(sess', cache'[get_mrn_from_row(row)]) :
                HoldsRow(sess'.notes[j], row)]_vars

\* what holds of every summary row with a key: it is counted as inserted and
\* one DischargeNote of its Patient holds exactly the row's values
SummaryRowWritten ==
    [][SummaryStep =>
          /\ inserted' = inserted + 1
          /\ skipped' = skipped
          /\ \E j \in NotesOf(sess', cache'[get_mrn_from_row(row)]) :
                HoldsRow(sess'.notes[j], row)]_vars

----------------------------------------------------------------------------
(* C14 *)

\* C14: what is committed changes only by a commit that succeeds, and neither
\* the step in which a store call fails nor any step after it (the rollback,
\* the end of the run) changes it: the batches committed before the failure
\* stay committed.
C14_CommittedBatchesStay ==
    [][/\ durable' # durable => (op' = "commit" /\ durable' = sess)
       /\ failure' # "none" => durable' = durable]_vars

\* a run that ended on a failed commit, after a rollback, with a Patient it
\* created itself still committed
C14_Witness ==
    /\ pc = "done"
    /\ failure = "commit"
    /\ rolledBack
    /\ sess = durable
    /\ \E k \in Keys :
          /\ created[k] = 1
          /\ \E p \in durable.patients : p.id \in returned[k] /\ p.name = IntToStr(k)

----------------------------------------------------------------------------
(* C15 *)

\* a row with key k has been processed without an exception while the cache
\* held for k an id that db.get no longer finds
StaleStep(k) ==
    /\ pc = "body"
    /\ get_mrn_from_row(row) = k
    /\ cache[k] # None
    /\ \A p \in db.patients : p.id # cache[k]
    /\ pc' # "except"

\* C15: when the cache holds for key k an id that no longer resolves,
\* get_or_create_patient raises nothing; if the store has a Patient with
\* medical_record_no str(k) it returns that one and caches its id, creating
\* nothing, and otherwise it creates exactly one Patient for k and caches its
\* new id; afterwards the cache entry of k refers to a Patient of the store.
C15_StaleCacheRecovers ==
    [][\A k \in Keys : StaleStep(k) =>
          /\ exc' = "none"
          /\ returned'[k] = returned[k] \cup {cache'[k]}
          /\ \E p \in db'.patients :
                p.id = cache'[k] /\ p.medical_record_no = IntToStr(k)
          /\ IF \E p \in db.patients : p.medical_record_no = IntToStr(k)
             THEN /\ \E p \in db.patients :
                        p.id = cache'[k] /\ p.medical_record_no = IntToStr(k)
                  /\ sess'.patients = sess.patients
                  /\ created' = created
             ELSE /\ created' = [created EXCEPT ![k] = @ + 1]
                  /\ \E p \in sess'.patients :
                        /\ p \notin sess.patients
                        /\ p.id = cache'[k]
                        /\ sess'.patients = sess.patients \cup {p}]_vars

\* a key whose cached Patient was deleted has been given a new Patient, and
\* a key whose cached Patient was replaced has been resolved to the new row
C15_Witness ==
    \E k \in Keys :
        /\ \E p \in db.patients : p.id = cache[k]
        /\ \/ created[k] = 2
           \/ created[k] = 1 /\ Cardinality(returned[k]) = 2

----------------------------------------------------------------------------
(* C16 *)

\* the sheet importer n reads
KindOf(n) ==
    IF n = 1 THEN "summary"
    ELSE IF n = 2 THEN "consult"
    ELSE IF n = 3 THEN "lab"
    ELSE "nursing"

\* C16: the importers run one after another in the order summaries, consults,
\* labs, nursing, on one session and one cache: the run moves to the next
\* importer only in the step in which main's commit after the previous one
\* succeeds, every row processed belongs to the importer running, the cache
\* is never emptied between importers, and a row whose key already has a
\* Patient in the store resolves to it without creating one.
C16_ImportersInOrder ==
    [][/\ imp' # imp =>
             /\ imp' = imp + 1
             /\ imp # 0 => (pc = "commit" /\ op' = "commit" /\ durable' = sess)
       /\ pc' = "body" => row'.kind = KindOf(imp')
       /\ opened' <= 1
       /\ \A k \in Keys : cache[k] # None => cache'[k] = cache[k]
       /\ \A k \in Keys :
             (/\ pc = "body"
              /\ get_mrn_from_row(row) = k
              /\ pc' # "except"
              /\ \E p \in db.patients : p.medical_record_no = IntToStr(k))
                 => /\ created' = created
                    /\ sess'.patients = sess.patients
                    /\ \E p \in db.patients :
                          /\ p.medical_record_no = IntToStr(k)
                          /\ returned'[k] = returned[k] \cup {p.id}]_vars

\* the consults importer has staged a record for the Patient the summaries
\* importer created and main committed
C16_Witness ==
    /\ imp = 2
    /\ pc = "mc"
    /\ \E k \in sumKeys :
          /\ created[k] = 1
          /\ Cardinality(returned[k]) = 1
          /\ \E p \in durable.patients : p.id \in returned[k]
          /\ \E n \in 1..Len(sess.consults) :
                sess.consults[n].patient_id \in returned[k]

----------------------------------------------------------------------------
(* C17 *)

\* a consults, labs or nursing row with key k has been counted as skipped
SkippedWithKey(k) ==
    /\ pc = "body"
    /\ imp \in 2..4
    /\ get_mrn_from_row(row) = k
    /\ skipped' = skipped + 1

\* the domain records of the session
DomainRecords(s) == <<s.notes, s.consults, s.labs, s.nursing>>

\* C17 as stated: a consults, labs or nursing row that has a key and is
\* counted as skipped leaves the store as it was: no domain record and no
\* Patient is staged because of it.
C17_SkippedRowLeavesStore ==
    [][\A k \in Keys : SkippedWithKey(k) => (sess' = sess /\ db' = db)]_vars

\* C17: a consults, labs or nursing row that has a key and is counted as
\* skipped stages no domain record; the one write it can cause is the Patient
\* of its key, created and flushed when the store has no Patient of that key,
\* because the Patient is resolved before the row is validated.
C17_SkippedRowStagesNoRecord ==
    [][\A k \in Keys : SkippedWithKey(k) =>
          /\ DomainRecords(sess') = DomainRecords(sess)
          /\ inserted' = inserted
          /\ IF \E p \in db.patients : p.medical_record_no = IntToStr(k)
             THEN sess' = sess /\ db' = db /\ created' = created
             ELSE /\ created' = [created EXCEPT ![k] = @ + 1]
                  /\ sess'.patients = sess.patients \cup {NewPatient(cache'[k], IntToStr(k))}
                  /\ cache'[k] \notin {p.id : p \in sess.patients}
                  /\ db' = sess']_vars

\* the first row of the run is a consults row with a key that was skipped, and
\* its Patient is in the store although no record is
C17_Witness ==
    /\ imp = 2
    /\ pc = "loop"
    /\ rowsRead = 1
    /\ i = 1
    /\ skipped = 1
    /\ sess.consults = <<>>
    /\ \E k \in Keys :
          /\ created[k] = 1
          /\ \E p \in db.patients : p.id = cache[k] /\ p.medical_record_no = IntToStr(k)

----------------------------------------------------------------------------
(* C18 *)

\* C18: a run in which no store call failed ends with the session closed and
\* no exception leaving main.
C18_CleanRunSucceeds ==
    (pc = "done" /\ failure = "none") => (session = "closed" /\ exc = "none")

----------------------------------------------------------------------------
(* C19 *)

\* C19: as long as nothing has been rolled back, every cache entry k -> id
\* refers to a Patient held by the session whose id is id and whose
\* medical_record_no is str(k); an entry is never removed; and an entry is
\* set only while a row with key k is processed, to the id of a Patient that
\* get_or_create_patient returned and that the store has given its id.
C19_CacheRefersToPatients ==
    [][/\ ~rolledBack' =>
             \A k \in Keys :
                 cache'[k] # None =>
                     \E p \in sess'.patients :
                         p.id = cache'[k] /\ p.medical_record_no = IntToStr(k)
       /\ \A k \in Keys : cache[k] # None => cache'[k] # None
       /\ \A k \in Keys :
             cache'[k] # cache[k] =>
                 /\ pc = "body"
                 /\ get_mrn_from_row(row) = k
                 /\ cache'[k] \in returned'[k]
                 /\ \E p \in db'.patients : p.id = cache'[k]]_vars

\* the cache holds the id of a Patient that is staged and not yet committed,
\* and the id of a Patient that is committed
C19_Witness ==
    /\ ~rolledBack
    /\ \E k \in Keys :
          /\ cache[k] # None
          /\ \E p \in sess.patients \ durable.patients : p.id = cache[k]
    /\ \E k \in Keys :
          /\ cache[k] # None
          /\ \E p \in durable.patients : p.id = cache[k]

============================================================================
